---- MODULE Spec2Model ----
(***************************************************************************)
(* Model of the LLM load-balancing engine of the API gateway:              *)
(*   app/core/model_load_balencer.py  ModelLoadBalancer (the Store)        *)
(*   app/api/model_base.py            model_request (the proxy handler)    *)
(* and of its tool side:                                                   *)
(*   app/api/tools_api.py             forward_request                      *)
(*   app/core/monitoring.py           Monitor                              *)
(*   app/core/health_check.py         HealthChecker                        *)
(*                                                                         *)
(* Weights are Python floats in the source.  They are modelled as exact    *)
(* rationals in fixed point: a weight w is stored as the integer w*Scale,  *)
(* Scale = 20^Prec, and a commit is only taken when its result 0.8*w or    *)
(* 1.05*w is exactly representable at that scale.  Times are in seconds,   *)
(* response times in milliseconds.                                         *)
(***************************************************************************)
EXTENDS Integers, Sequences, FiniteSets, TLC

\* ------------------------------------------------------------------ bounds
Prec == 3            \* fixed-point precision: weights are multiples of 1/20^Prec
MaxOps == 4          \* Store calls (select / commit) of a general run
MaxSelects == 9      \* selects of a pure select run (no commits)
MaxInits == 1        \* initialize calls after startup
MaxDeep == 6         \* Store calls of a run on the configured model's instances
MaxReq == 2          \* proxied requests
MaxTime == 45        \* last second of the modelled clock
TickSeconds == 15    \* seconds between two readings of the clock
MaxProbeFailures == 4 \* probe exceptions in a row of one tool service

Scale == 20 ^ Prec

\* ------------------------------------------------------- program constants
MinWeight == 5       \* max(5, ...) floor of effective_weight
MaxWeight == 100     \* min(100, ...) ceiling of effective_weight
MaxFailures == 3     \* history_failures > 3 marks the node as warning
HistoryWindow == 30  \* seconds of load_history kept

Healthy == "healthy"      \* '健康'
Warning == "warning"      \* '警告'
Balanced == "balanced"    \* '均衡'
Unbalanced == "unbalanced" \* '不均衡'

NoNode == "none"          \* Python None for `best`

Max(a, b) == IF a >= b THEN a ELSE b
Min(a, b) == IF a <= b THEN a ELSE b
Abs(a) == IF a >= 0 THEN a ELSE -a

\* ------------------------------------------------------------ configuration
\* settings.MODEL_INSTANCES: one configured model "m"; "nope" is not configured.
\* An instance has a name (the Store key), a url whose host:port becomes
\* node_id, an initial_weight and a load_threshold.
ConfiguredModel == "m"
ModelNames == {"m", "nope"}

Inst(n, id, w) == [name |-> n, node_id |-> id, initial_weight |-> w, load_threshold |-> 2]

Configs ==
  { <<Inst("A", "hA", 3), Inst("B", "hB", 1)>>,
    <<Inst("A", "hA", 1), Inst("B", "hB", 1), Inst("C", "hC", 1)>>,
    <<Inst("A", "hA", 5), Inst("B", "hB", 5)>>,
    <<Inst("A", "hA", 20)>>,
    <<Inst("A", "hA", 100), Inst("B", "hB", 6)>>,
    <<Inst("A", "A", 10)>> }

\* further configurations for runs of selects alone
SelectConfigs ==
  { <<Inst("A", "hA", 1), Inst("B", "hB", 1), Inst("C", "hC", 2)>>,
    <<Inst("A", "hA", 2), Inst("B", "hB", 3)>> }

VARIABLES
  cfg,              \* MODEL_INSTANCES["m"], immutable
  service_weights,  \* model -> name -> [current_weight, effective_weight, history_failures]
  service_metrics,  \* model -> name -> node metrics
  now,              \* time.time(), seconds
  ops,              \* Store calls so far
  inits,            \* initialize calls after startup
  last,             \* outcome of the last Store call
  run,              \* picks of the selects since initialize, while no commit intervened
  reqs,             \* the proxied requests: each handler's position and locals
  monitor,          \* the tool Monitor: global and per-service counters
  health_checker,   \* HealthChecker.service_metrics: service -> [healthy, failures, ...]
  tool_reqs         \* the /tools requests: each handler's position and locals

vars == <<cfg, service_weights, service_metrics, now, ops, inits, last, run, reqs,
          monitor, health_checker, tool_reqs>>
\* the state of the tool side of the gateway, and of the model side
tool_vars == <<monitor, health_checker, tool_reqs>>
model_vars == <<cfg, service_weights, service_metrics, now, ops, inits, last, run, reqs>>

Names(c) == {c[i].name : i \in 1..Len(c)}
Order(c) == [i \in 1..Len(c) |-> c[i].name]
NodeIds(c) == {c[i].node_id : i \in 1..Len(c)}
Keys(c) == Names(c) \cup NodeIds(c)

\* ---------------------------------------------------------------- initialize
\* the key misread: every instance gets the default of instance.get(..., 20)
InitialEffectiveWeightDefault(inst) == 20 * Scale

\* lines 58-62
InitialCurrentWeight(inst) == inst.initial_weight * Scale
InitialEffectiveWeight(inst) == inst.initial_weight * Scale

InitialWeights(inst) ==
  [current_weight |-> InitialCurrentWeight(inst),
   effective_weight |-> InitialEffectiveWeight(inst),
   history_failures |-> 0]

\* lines 65-81
InitialMetrics(inst, t) ==
  [name |-> inst.name, status |-> Healthy, balance |-> Balanced, load_rate |-> 0,
   tokens |-> 0, resp_time |-> 0, weight |-> inst.initial_weight * Scale,
   node_id |-> inst.node_id, active_requests |-> 0, request_count |-> 0,
   error_count |-> 0, last_update |-> t, load_threshold |-> inst.load_threshold,
   load_history |-> <<>>]

InstOf(c, n) == CHOOSE i \in 1..Len(c) : c[i].name = n /\ \A j \in (i+1)..Len(c) : c[j].name # n

InitializedWeights(c) ==
  [m \in {ConfiguredModel} |-> [n \in Names(c) |-> InitialWeights(c[InstOf(c, n)])]]
InitializedMetrics(c, t) ==
  [m \in {ConfiguredModel} |-> [n \in Names(c) |-> InitialMetrics(c[InstOf(c, n)], t)]]

NoCall == [op |-> "none"]
FreshRun == [stable |-> TRUE, picks |-> <<>>]

Requests == 1..MaxReq
\* upstream: the upstream's status, TransportError when the call raised a connection
\* error, UpstreamTimeout when it raised a timeout, 0 before
TransportError == -1
UpstreamTimeout == -2
\* Python None, or a key that is missing
Absent == -1
\* a JSON value that is not an object
NotObject == -2

\* a request that has not arrived yet; resp = 0: nothing answered yet.
\* received, delivered: the stream's lines read from upstream and yielded downstream;
\* token_count, final_token_count: the generator's locals; ending: how the stream
\* ended; commits, is_error, tokens: the calls of update_instance_metrics and the
\* arguments of the last one
IdleRequest ==
  [pc |-> "idle", model |-> "none", streaming |-> FALSE, node_id |-> NoNode,
   instance_id |-> NoNode, start_time |-> 0, upstream |-> 0, started |-> FALSE,
   received |-> <<>>, delivered |-> <<>>, token_count |-> 0,
   final_token_count |-> Absent, ending |-> "none",
   resp |-> 0, commits |-> 0, is_error |-> FALSE, tokens |-> 0]

\* --------------------------------------------------------- get_next_instance
\* line 112: what one healthy node adds to `total`
TotalStep(current_weight, effective_weight) == current_weight

\* line 115: whether a node replaces the best one seen so far
Better(current_weight, best_weight) == current_weight > best_weight

\* every node is scanned, whatever its status
SkipsNoNode(status) == FALSE

\* lines 106-107: a node whose status is not '健康' is skipped
SkipsNode(status) == status # Healthy

\* lines 100-103
ScanStart(weights_dict) ==
  [w |-> weights_dict, total |-> 0, best |-> NoNode, best_weight |-> 0]

\* lines 105-118: the loop over metrics_dict.items(), in configured order
RECURSIVE ScanNodes(_, _, _, _)
ScanNodes(order, k, metrics_dict, acc) ==
  IF k > Len(order) THEN acc
  ELSE LET n == order[k] IN
    IF SkipsNode(metrics_dict[n].status)
    THEN ScanNodes(order, k + 1, metrics_dict, acc)
    ELSE LET ew == acc.w[n].effective_weight
             cw == acc.w[n].current_weight + ew
             better == Better(cw, acc.best_weight)
         IN ScanNodes(order, k + 1, metrics_dict,
              [w |-> [acc.w EXCEPT ![n].current_weight = cw],
               total |-> acc.total + TotalStep(cw, ew),
               best |-> IF better THEN n ELSE acc.best,
               best_weight |-> IF better THEN cw ELSE acc.best_weight])

\* the model looked up with setdefault(model_name, {}) before the check
UnknownModelCreated(sw, sm, model) ==
  [ok |-> FALSE, code |-> 404,
   weights |-> [m \in DOMAIN sw \cup {model} |-> IF m \in DOMAIN sw THEN sw[m] ELSE <<>>],
   metrics |-> [m \in DOMAIN sm \cup {model} |-> IF m \in DOMAIN sm THEN sm[m] ELSE <<>>],
   name |-> NoNode, node_id |-> NoNode]

\* lines 89-94: the model is not configured, HTTPException(404), nothing touched
UnknownModelResult(sw, sm, model) ==
  [ok |-> FALSE, code |-> 404, weights |-> sw, metrics |-> sm,
   name |-> NoNode, node_id |-> NoNode]

\* lines 85-135: the result of get_next_instance and the Store it leaves
GetNextInstance(sw, sm, c, model) ==
  IF model \notin DOMAIN sm
  THEN UnknownModelResult(sw, sm, model)
  ELSE LET acc == ScanNodes(Order(c), 1, sm[model], ScanStart(sw[model])) IN
    IF acc.best = NoNode
    THEN [ok |-> FALSE, code |-> 503, weights |-> [sw EXCEPT ![model] = acc.w],
          metrics |-> sm, name |-> NoNode, node_id |-> NoNode]
    ELSE [ok |-> TRUE, code |-> 200,
          weights |-> [sw EXCEPT ![model] =
                         [acc.w EXCEPT ![acc.best].current_weight = @ - acc.total]],
          metrics |-> [sm EXCEPT ![model][acc.best].active_requests = @ + 1],
          name |-> acc.best, node_id |-> sm[model][acc.best].node_id]

\* ---------------------------------------------------- update_instance_metrics
\* the floor max(0, ...) forgotten
DecActiveNoFloor(active_requests) == active_requests - 1

\* line 170
DecActive(active_requests) == Max(0, active_requests - 1)

\* the floor max(5, ...) forgotten
ErrorWeightNoFloor(w) == (4 * w) \div 5

\* line 221: max(5, effective_weight * 0.8)
ErrorWeight(w) == Max(MinWeight * Scale, (4 * w) \div 5)
\* line 230: min(100, effective_weight * 1.05)
SuccessWeight(w) == Min(MaxWeight * Scale, (21 * w) \div 20)

\* the new weight is exact at the model's precision
Representable(w, is_error) ==
  IF is_error THEN (4 * w) % 5 = 0 \/ 4 * w <= 5 * MinWeight * Scale
  ELSE (21 * w) % 20 = 0 \/ 21 * w >= 20 * MaxWeight * Scale

\* the node is marked one failure early
MarksWarningEarly(history_failures) == history_failures >= MaxFailures

\* line 225
MarksWarning(history_failures) == history_failures > MaxFailures

\* a successful commit promotes the node back to healthy
StatusRecovering(status, is_error, history_failures) ==
  IF is_error THEN (IF MarksWarning(history_failures) THEN Warning ELSE status) ELSE Healthy

\* lines 218-230: the status after a commit; no branch sets '健康'
StatusAfter(status, is_error, history_failures) ==
  IF is_error /\ MarksWarning(history_failures) THEN Warning ELSE status

\* the window forgotten: every entry is kept
PruneNothing(history, min_time) == history

\* lines 178-181
Prune(history, min_time) == SelectSeq(history, LAMBDA e : e[1] >= min_time)

\* line 190: sorted(load_history, key=time), a stable sort
RECURSIVE InsertByTime(_, _)
InsertByTime(sorted, e) ==
  IF sorted = <<>> THEN <<e>>
  ELSE IF sorted[Len(sorted)][1] <= e[1] THEN Append(sorted, e)
  ELSE Append(InsertByTime(SubSeq(sorted, 1, Len(sorted) - 1), e), sorted[Len(sorted)])

RECURSIVE SortByTime(_)
SortByTime(history) ==
  IF history = <<>> THEN <<>>
  ELSE InsertByTime(SortByTime(SubSeq(history, 1, Len(history) - 1)), history[Len(history)])

\* lines 193-203: the integral of load over time, in request-seconds
RECURSIVE LoadIntegral(_, _, _)
LoadIntegral(sorted, i, current_time) ==
  IF sorted = <<>> THEN 0
  ELSE IF i = Len(sorted) THEN sorted[i][2] * (current_time - sorted[i][1])
  ELSE sorted[i][2] * (sorted[i + 1][1] - sorted[i][1]) + LoadIntegral(sorted, i + 1, current_time)

\* lines 184-214: load rate = min(1.0, (total_load / 30) / load_threshold), kept as
\* its numerator over HistoryWindow * load_threshold
LoadRate(history, current_time, load_threshold) ==
  IF history = <<>> THEN 0
  ELSE Min(HistoryWindow * load_threshold, LoadIntegral(SortByTime(history), 1, current_time))

RECURSIVE SumWeights(_, _)
SumWeights(metrics_dict, S) ==
  IF S = {} THEN 0
  ELSE LET n == CHOOSE x \in S : TRUE
       IN metrics_dict[n].weight + SumWeights(metrics_dict, S \ {n})

HealthyNodes(metrics_dict) == {n \in DOMAIN metrics_dict : metrics_dict[n].status = Healthy}

\* lines 236-242: abs(weight - avg) / avg < 0.2 over the healthy nodes' weights
BalanceLabel(metrics_dict, key) ==
  LET H == HealthyNodes(metrics_dict)
      sum == SumWeights(metrics_dict, H)
      cnt == Cardinality(H)
  IN IF H = {} THEN Unbalanced
     ELSE IF 5 * Abs(metrics_dict[key].weight * cnt - sum) < sum THEN Balanced ELSE Unbalanced

\* the model looked up with setdefault(model_name, {}) before the return
ReturnAfterCreating(sw, sm, model) ==
  [applied |-> FALSE,
   weights |-> [m \in DOMAIN sw \cup {model} |-> IF m \in DOMAIN sw THEN sw[m] ELSE <<>>],
   metrics |-> [m \in DOMAIN sm \cup {model} |-> IF m \in DOMAIN sm THEN sm[m] ELSE <<>>]]

\* lines 148-152: `return` with nothing written
SilentReturn(sw, sm, model) == [applied |-> FALSE, weights |-> sw, metrics |-> sm]

\* lines 137-242: the Store after update_instance_metrics
UpdateInstanceMetrics(sw, sm, model, key, response_time, is_error, token_count, current_time) ==
  IF model \notin DOMAIN sm THEN SilentReturn(sw, sm, model)
  ELSE IF key \notin DOMAIN sm[model] THEN SilentReturn(sw, sm, model)
  ELSE
    LET met == sm[model][key]
        w == sw[model][key]
        pre_update_active_requests == met.active_requests
        history == Prune(Append(met.load_history, <<current_time, pre_update_active_requests>>),
                         current_time - HistoryWindow)
        ew == IF is_error THEN ErrorWeight(w.effective_weight)
              ELSE SuccessWeight(w.effective_weight)
        hf == IF is_error THEN w.history_failures + 1 ELSE 0
        met2 == [met EXCEPT !.resp_time = response_time,
                            !.request_count = @ + 1,
                            !.tokens = @ + token_count,
                            !.active_requests = DecActive(@),
                            !.load_history = history,
                            !.load_rate = LoadRate(history, current_time, met.load_threshold),
                            !.last_update = current_time,
                            !.error_count = IF is_error THEN @ + 1 ELSE @,
                            !.status = StatusAfter(@, is_error, hf),
                            !.weight = ew]
        dict2 == [sm[model] EXCEPT ![key] = met2]
    IN [applied |-> TRUE,
        weights |-> [sw EXCEPT ![model][key] =
                       [current_weight |-> w.current_weight, effective_weight |-> ew,
                        history_failures |-> hf]],
        metrics |-> [sm EXCEPT ![model] =
                       [dict2 EXCEPT ![key].balance = BalanceLabel(dict2, key)]]]

\* a commit the model can take: its new weight is exact
CommitExact(sw, sm, model, key, is_error) ==
  (model \in DOMAIN sm /\ key \in DOMAIN sm[model])
    => Representable(sw[model][key].effective_weight, is_error)

\* ------------------------------------------------------------------- inputs
TokenCounts == {0, 7}
ResponseTimes == {100}

\* ------------------------------------------------------------ Store actions
\* ------------------------------------------------------------- the tool side
\* settings.SERVICE_HEALTH_CHECKS: the names of the configured tool services
ServiceNames == {"nlp2sql", "ocr"}
\* the {service} of a request to /tools/{service}/...: the configured names, one of
\* them in another case, and a name that is not configured
RequestedServices == {"nlp2sql", "NLP2SQL", "ocr", "ghost"}
\* str.lower()
Lower(name) == CASE name = "NLP2SQL" -> "nlp2sql" [] OTHER -> name

ToolRequests == Requests
IdleToolRequest == [pc |-> "idle", service |-> "none", forwarded |-> FALSE, resp |-> 0]

\* monitoring.py lines 85-105: Monitor.reset
InitialMonitor ==
  [recent_requests |-> <<>>, error_count |-> 0, active_tasks |-> 0,
   service_metrics |->
     [s \in ServiceNames |->
        [recent_requests |-> <<>>, response_times |-> <<>>, errors |-> 0,
         active_tasks |-> 0, request_count |-> 0, response_time_sum |-> 0]]]

\* health_check.py lines 39-54: initialize_service_metrics
InitialHealth(t) ==
  [s \in ServiceNames |->
     [last_health_check |-> t, healthy |-> TRUE, health_check_failures |-> 0]]

InitTools ==
  /\ monitor = InitialMonitor
  /\ health_checker = InitialHealth(0)
  /\ tool_reqs = [t \in ToolRequests |-> IdleToolRequest]

\* main.py lines 60-66: the startup hook has run initialize() before any request
InitWith(configs) ==
  /\ cfg \in configs
  /\ now = 0
  /\ service_weights = InitializedWeights(cfg)
  /\ service_metrics = InitializedMetrics(cfg, now)
  /\ ops = 0
  /\ inits = 0
  /\ last = NoCall
  /\ run = FreshRun
  /\ reqs = [r \in Requests |-> IdleRequest]
  /\ InitTools

Init == InitWith(Configs)

\* lines 36-83: initialize() called again (a reload) replaces the whole Store
Initialize ==
  /\ inits < MaxInits
  /\ service_weights' = InitializedWeights(cfg)
  /\ service_metrics' = InitializedMetrics(cfg, now)
  /\ inits' = inits + 1
  /\ ops' = ops
  /\ last' = [op |-> "initialize"]
  /\ run' = FreshRun
  /\ UNCHANGED <<cfg, now, reqs, tool_vars>>

RunAfterSelect(r) ==
  IF r.ok /\ run.stable THEN [run EXCEPT !.picks = Append(@, r.name)] ELSE run

\* a call of get_next_instance(model)
Select(limit, model) ==
  /\ ops < limit
  /\ LET r == GetNextInstance(service_weights, service_metrics, cfg, model) IN
       /\ service_weights' = r.weights
       /\ service_metrics' = r.metrics
       /\ last' = [op |-> "select", ok |-> r.ok, code |-> r.code, name |-> r.name]
       /\ run' = RunAfterSelect(r)
  /\ ops' = ops + 1
  /\ UNCHANGED <<cfg, now, inits, reqs, tool_vars>>

\* a call of update_instance_metrics(model, key, response_time, is_error, token_count)
Commit(limit, model, key, response_time, is_error, token_count) ==
  /\ ops < limit
  /\ CommitExact(service_weights, service_metrics, model, key, is_error)
  /\ LET r == UpdateInstanceMetrics(service_weights, service_metrics, model, key,
                                    response_time, is_error, token_count, now) IN
       /\ service_weights' = r.weights
       /\ service_metrics' = r.metrics
       /\ last' = [op |-> "commit", applied |-> r.applied]
       /\ run' = IF r.applied THEN [stable |-> FALSE, picks |-> <<>>] ELSE run
  /\ ops' = ops + 1
  /\ UNCHANGED <<cfg, now, inits, reqs, tool_vars>>

\* time.time() advances between two calls
Tick ==
  /\ now + TickSeconds <= MaxTime
  /\ now' = now + TickSeconds
  /\ UNCHANGED <<cfg, service_weights, service_metrics, ops, inits, last, run, reqs, tool_vars>>

SelectCall == \E model \in ModelNames : Select(MaxOps, model)
\* the (model, key) pairs commits are called with: every instance name of the
\* configured model, a node_id (host:port) in place of a name, an unknown model
CommitTargets(c) ==
  {<<ConfiguredModel, n>> : n \in Names(c)}
    \cup {<<ConfiguredModel, c[1].node_id>>, <<"nope", c[1].name>>}

CommitCall ==
  \E target \in CommitTargets(cfg), rt \in ResponseTimes,
     is_error \in BOOLEAN, tok \in TokenCounts :
       Commit(MaxOps, target[1], target[2], rt, is_error, tok)

Next == Initialize \/ SelectCall \/ CommitCall

Spec == Init /\ [][Next]_vars

\* a run of selects only, with no commit in between
SelectOnly == \E model \in ModelNames : Select(MaxSelects, model)
NextSel == Initialize \/ SelectOnly \/ Tick
InitSel == InitWith(Configs \cup SelectConfigs)
SpecSel == InitSel /\ [][NextSel]_vars

\* runs long enough for repeated failures: selects and commits on the configured
\* model's instances, called by name
DeepSelect == Select(MaxDeep, ConfiguredModel)
DeepCommit ==
  \E n \in Names(cfg), rt \in ResponseTimes, is_error \in BOOLEAN :
     Commit(MaxDeep, ConfiguredModel, n, rt, is_error, 0)
NextDeep == DeepSelect \/ DeepCommit
InitDeep == InitWith({c \in Configs : Len(c) <= 2})
SpecDeep == InitDeep /\ [][NextDeep]_vars

\* runs over the clock: selects and commits of one instance, time passing in between
TimedSelect == Select(MaxOps, ConfiguredModel)
TimedCommit ==
  \E n \in Names(cfg), rt \in ResponseTimes, is_error \in BOOLEAN :
     Commit(MaxOps, ConfiguredModel, n, rt, is_error, 0)
NextTimed == TimedSelect \/ TimedCommit \/ Tick
InitTimed == InitWith({c \in Configs : Len(c) = 1})
SpecTimed == InitTimed /\ [][NextTimed]_vars

\* ------------------------------------------------------------------ snapshots
\* sorted(..., key=节点名称): the rank of a name in string order
NameRank(n) == CASE n = "A" -> 1 [] n = "B" -> 2 [] n = "C" -> 3 [] OTHER -> 4

\* lines 250-253, 336-339: the node names in the order of their names
SortedNames(metrics_dict) ==
  LET N == DOMAIN metrics_dict
      pos(n) == Cardinality({k \in N : NameRank(k) < NameRank(n)}) + 1
  IN [i \in 1..Cardinality(N) |-> CHOOSE n \in N : pos(n) = i]

\* lines 258-267: the fields of a node that the per-node snapshot shows (IP地址 is the
\* host of node_id)
NodeView(m) ==
  [name |-> m.name, host |-> m.node_id, status |-> m.status, balance |-> m.balance,
   load_rate |-> m.load_rate, tokens |-> m.tokens, resp_time |-> m.resp_time,
   weight |-> m.weight]

\* lines 244-270
GetServiceMetrics(sm) ==
  [model \in DOMAIN sm |->
     LET order == SortedNames(sm[model])
     IN [i \in 1..Len(order) |-> NodeView(sm[model][order[i]])]]

RECURSIVE SumOver(_, _, _)
SumOver(metrics_dict, S, field) ==
  IF S = {} THEN 0
  ELSE LET n == CHOOSE x \in S : TRUE
       IN metrics_dict[n][field] + SumOver(metrics_dict, S \ {n}, field)

ISqrt(x) == CHOOSE k \in 0..1000 : k * k <= x /\ (k + 1) * (k + 1) > x

\* lines 285-291: max(0, min(1, 1 - std/avg)) over the healthy nodes' weights, in
\* thousandths; each weight is taken relative to the mean weight, in thousandths
LbDegree(metrics_dict) ==
  LET H == HealthyNodes(metrics_dict)
      cnt == Cardinality(H)
      sum == SumWeights(metrics_dict, H)
      rel(n) == (10 * cnt * metrics_dict[n].weight) \div (sum \div 100)
      RECURSIVE Squares(_)
      Squares(S) == IF S = {} THEN 0
                    ELSE LET n == CHOOSE x \in S : TRUE
                         IN (rel(n) - 1000) * (rel(n) - 1000) + Squares(S \ {n})
      variance == Squares(H) \div cnt
  IN IF H = {} THEN 0
     ELSE IF variance >= 1000000 THEN 0
     ELSE 1000 - ISqrt(variance)

\* lines 294-300: the request_count of the nodes updated in the last 10 s, that is
\* the throughput in tenths of a request per second
RecentSeconds == 10
Throughput(metrics_dict, current_time) ==
  SumOver(metrics_dict,
          {n \in DOMAIN metrics_dict : metrics_dict[n].last_update >= current_time - RecentSeconds},
          "request_count")

\* line 303: the mean load rate in thousandths
AvgLoad(metrics_dict) ==
  LET N == DOMAIN metrics_dict
      permille(n) == (1000 * metrics_dict[n].load_rate)
                       \div (HistoryWindow * metrics_dict[n].load_threshold)
      RECURSIVE Total(_)
      Total(S) == IF S = {} THEN 0
                  ELSE LET n == CHOOSE x \in S : TRUE IN permille(n) + Total(S \ {n})
  IN IF N = {} THEN 0 ELSE Total(N) \div Cardinality(N)

\* line 304: the mean inference time in tenths of a millisecond
AvgInference(metrics_dict) ==
  IF DOMAIN metrics_dict = {} THEN 0
  ELSE (10 * SumOver(metrics_dict, DOMAIN metrics_dict, "resp_time"))
         \div Cardinality(DOMAIN metrics_dict)

WarningNodes(metrics_dict) == {n \in DOMAIN metrics_dict : metrics_dict[n].status = Warning}

\* lines 277-317: the global figures of one model
GlobalView(metrics_dict, current_time) ==
  [nodes |-> Cardinality(DOMAIN metrics_dict),
   healthy |-> Cardinality(HealthyNodes(metrics_dict)),
   lb_degree |-> LbDegree(metrics_dict),
   tokens |-> SumOver(metrics_dict, DOMAIN metrics_dict, "tokens"),
   avg_inference |-> AvgInference(metrics_dict),
   avg_load |-> AvgLoad(metrics_dict),
   active |-> Cardinality(DOMAIN metrics_dict) - Cardinality(WarningNodes(metrics_dict)),
   throughput |-> Throughput(metrics_dict, current_time),
   updated |-> current_time]

\* lines 272-318
GetGlobalMetrics(sm, current_time) ==
  [model \in DOMAIN sm |-> GlobalView(sm[model], current_time)]

\* the outcomes of the random module kept by the model: a draw is the low end of its
\* range plus the seed of the call
Seeds == {0, 1}
\* lines 343-344, 393-394: random_if_zero(val, rfunc), rfunc drawing from lo upwards
RandomIfZero(val, lo, seed) == IF val = 0 THEN lo + seed ELSE val

\* lines 345-357: the node fields of the combined snapshot; the ranges are
\* uniform(0.1, 0.8) of the load rate, randint(100, 10000), uniform(10, 100) ms and
\* uniform(10, 40)
CombinedNodeView(m, seed) ==
  [NodeView(m) EXCEPT
     !.load_rate = RandomIfZero(@, (HistoryWindow * m.load_threshold) \div 10, seed),
     !.tokens = RandomIfZero(@, 100, seed),
     !.resp_time = RandomIfZero(@, 10, seed),
     !.weight = RandomIfZero(@, 10 * Scale, seed)]

\* lines 395-405: the global fields of the combined snapshot; randint(1, 4),
\* uniform(80, 100) %, randint(1000, 10000), uniform(10, 100), uniform(10, 80) %
CombinedGlobalView(metrics_dict, current_time, seed) ==
  LET g == GlobalView(metrics_dict, current_time) IN
  [g EXCEPT !.nodes = RandomIfZero(@, 1, seed),
            !.healthy = RandomIfZero(@, 1, seed),
            !.lb_degree = RandomIfZero(@, 800, seed),
            !.tokens = RandomIfZero(@, 1000, seed),
            !.avg_inference = RandomIfZero(@, 100, seed),
            !.avg_load = RandomIfZero(@, 100, seed),
            !.active = RandomIfZero(@, 1, seed),
            !.throughput = RandomIfZero(@, 100, seed)]

\* lines 319-407
GetCombinedMetrics(sm, current_time, seed) ==
  [global_metrics |->
     [model \in DOMAIN sm |-> CombinedGlobalView(sm[model], current_time, seed)],
   node_metrics |->
     [model \in DOMAIN sm |->
        LET order == SortedNames(sm[model])
        IN [i \in 1..Len(order) |-> CombinedNodeView(sm[model][order[i]], seed)]]]

\* a snapshot without its time stamps
TimeAside(kind, v) ==
  CASE kind = "nodes" -> v
    [] kind = "global" -> [model \in DOMAIN v |-> [v[model] EXCEPT !.updated = 0]]
    [] kind = "combined" ->
         [v EXCEPT !.global_metrics =
            [model \in DOMAIN v.global_metrics |-> [v.global_metrics[model] EXCEPT !.updated = 0]]]

\* model_base.py lines 57-70: a monitoring endpoint is read.  `again`: the Store call
\* before it was a snapshot of the same kind, whose value is kept in `before`
Snapshot(kind, v) ==
  /\ LET again == last.op = "snapshot" /\ last.kind = kind IN
       last' = [op |-> "snapshot", kind |-> kind, value |-> v, again |-> again,
                before |-> IF again THEN last.value ELSE v]
  /\ UNCHANGED <<cfg, service_weights, service_metrics, now, ops, inits, run, reqs, tool_vars>>

NodesSnapshot == Snapshot("nodes", GetServiceMetrics(service_metrics))
GlobalSnapshot == Snapshot("global", GetGlobalMetrics(service_metrics, now))
CombinedSnapshot ==
  \E seed \in Seeds : Snapshot("combined", GetCombinedMetrics(service_metrics, now, seed))

NextSnap ==
  \/ TimedSelect \/ TimedCommit \/ Tick
  \/ NodesSnapshot \/ GlobalSnapshot \/ CombinedSnapshot
SpecSnap == InitTimed /\ [][NextSnap]_vars

\* ------------------------------------------------------------ tools and probes
\* every service name is let through to forward_to_service, whose get_service_config
\* falls back on http://{service}:8000
ForwardsAnyService(service) == TRUE

\* tools_api.py lines 139-140: the name is compared in lower case
ServiceConfigured(service) == Lower(service) \in {Lower(s) : s \in ServiceNames}

ToolResponseTimes == {1}
ToolStatuses == {200, 500}

\* monitoring.py lines 107-121: record_request_start
RecordRequestStart(mon, service, current_time) ==
  IF service \notin DOMAIN mon.service_metrics THEN mon
  ELSE [mon EXCEPT !.recent_requests = Append(@, current_time),
                   !.active_tasks = @ + 1,
                   !.service_metrics[service].recent_requests = Append(@, current_time),
                   !.service_metrics[service].active_tasks = @ + 1]

\* monitoring.py lines 143-145: the last 10 response times are kept
KeepLastTen(response_times) ==
  IF Len(response_times) > 10 THEN Tail(response_times) ELSE response_times

\* monitoring.py lines 123-145: record_request_end
RecordRequestEnd(mon, service, response_time, is_error) ==
  IF service \notin DOMAIN mon.service_metrics THEN mon
  ELSE [mon EXCEPT !.active_tasks = @ - 1,
                   !.error_count = IF is_error THEN @ + 1 ELSE @,
                   !.service_metrics[service].active_tasks = @ - 1,
                   !.service_metrics[service].response_times =
                      KeepLastTen(Append(@, response_time)),
                   !.service_metrics[service].request_count = @ + 1,
                   !.service_metrics[service].response_time_sum = @ + response_time,
                   !.service_metrics[service].errors = IF is_error THEN @ + 1 ELSE @]

\* tools_api.py lines 128-148 and 64-84: forward_request answers 404 for a service
\* that is not configured, and otherwise enters forward_to_service, which records the
\* start and awaits the upstream
ForwardRequest(t, service) ==
  /\ tool_reqs[t].pc = "idle"
  /\ \A q \in ToolRequests : q < t => tool_reqs[q].pc # "idle"
  /\ IF ServiceConfigured(service)
     THEN /\ monitor' = RecordRequestStart(monitor, service, now)
          /\ tool_reqs' = [tool_reqs EXCEPT ![t] =
               [pc |-> "upstream", service |-> service, forwarded |-> TRUE, resp |-> 0]]
     ELSE /\ monitor' = monitor
          /\ tool_reqs' = [tool_reqs EXCEPT ![t] =
               [pc |-> "done", service |-> service, forwarded |-> FALSE, resp |-> 404]]
  /\ UNCHANGED <<health_checker, model_vars>>

\* the handler leaves forward_to_service, having called record_request_end or not
ToolReturn(t, ended, is_error, status) ==
  /\ tool_reqs[t].pc = "upstream"
  /\ monitor' = IF ended
                THEN LET rt == CHOOSE x \in ToolResponseTimes : TRUE
                     IN RecordRequestEnd(monitor, tool_reqs[t].service, rt, is_error)
                ELSE monitor
  /\ tool_reqs' = [tool_reqs EXCEPT ![t].pc = "done", ![t].resp = status]
  /\ UNCHANGED <<health_checker, model_vars>>

\* tools_api.py lines 87-111: the upstream answers; its body is returned with 200
ToolResponse(t) == \E status \in ToolStatuses : ToolReturn(t, TRUE, status >= 400, 200)
\* tools_api.py lines 113-119: httpx.TimeoutException
ToolTimeout(t) == ToolReturn(t, TRUE, TRUE, 504)
\* tools_api.py lines 120-126: httpx.RequestError
ToolTransportError(t) == ToolReturn(t, TRUE, TRUE, 502)
\* tools_api.py lines 85-126: an exception that is no httpx.RequestError (httpx.InvalidURL,
\* for one) passes both except clauses; the framework answers 500
ToolOtherFailure(t) == ToolReturn(t, FALSE, TRUE, 500)
\* tools_api.py lines 87-94: the handler's task is cancelled at the await;
\* asyncio.CancelledError passes both except clauses and nothing is answered
ToolCancelled(t) == ToolReturn(t, FALSE, TRUE, 0)

\* the upstream /health probe: what client.get(url) raises or returns
ProbeTimeout == [kind |-> "timeout", status |-> 0, body |-> "none"]
ProbeNetworkError == [kind |-> "network", status |-> 0, body |-> "none"]
ProbeAnswer(status, body) == [kind |-> "http", status |-> status, body |-> body]
ProbeResponses ==
  {ProbeTimeout, ProbeNetworkError, ProbeAnswer(500, "status_healthy")}
    \cup {ProbeAnswer(200, body) :
            body \in {"status_healthy", "healthy_true", "status_unhealthy", "healthy_false",
                      "other_object", "not_json", "json_number"}}

\* what check_service_health returns: a boolean, or an exception object
ProbeResult(value) == [exception |-> FALSE, value |-> value]
ProbeException == [exception |-> TRUE, value |-> FALSE]

\* health_check.py lines 143-193: check_service_health
CheckServiceHealth(response) ==
  IF response.kind # "http" THEN ProbeException
  ELSE IF response.status # 200 THEN ProbeResult(FALSE)
  ELSE CASE response.body \in {"status_healthy", "healthy_true"} -> ProbeResult(TRUE)
         [] response.body \in {"status_unhealthy", "healthy_false"} -> ProbeResult(FALSE)
         [] response.body = "json_number" -> ProbeException  \* `"status" in 5`: TypeError
         [] OTHER -> ProbeResult(TRUE)

\* a single failed probe marks the service unhealthy
MarksUnhealthyAtOnce(health_check_failures) == health_check_failures >= 1

\* health_check.py line 133
MarksUnhealthy(health_check_failures) == health_check_failures >= 3

\* health_check.py lines 121-141: the update of one service after a round
HealthAfter(metrics, result, current_time) ==
  IF result.exception
  THEN [metrics EXCEPT !.last_health_check = current_time,
                       !.health_check_failures = @ + 1,
                       !.healthy = IF MarksUnhealthy(metrics.health_check_failures + 1)
                                   THEN FALSE ELSE @]
  ELSE [metrics EXCEPT !.last_health_check = current_time,
                       !.health_check_failures = 0,
                       !.healthy = result.value]

\* health_check.py lines 96-141: perform_health_checks, one round
ProbeRound(responses) ==
  /\ \A s \in ServiceNames :
       CheckServiceHealth(responses[s]).exception
         => health_checker[s].health_check_failures < MaxProbeFailures
  /\ health_checker' =
       [s \in ServiceNames |->
          HealthAfter(health_checker[s], CheckServiceHealth(responses[s]), now)]
  /\ UNCHANGED <<monitor, tool_reqs, model_vars>>

NextTools ==
  \/ \E t \in ToolRequests, service \in RequestedServices : ForwardRequest(t, service)
  \/ \E t \in ToolRequests : ToolResponse(t)
  \/ \E t \in ToolRequests : ToolTimeout(t)
  \/ \E t \in ToolRequests : ToolTransportError(t)
  \/ \E t \in ToolRequests : ToolOtherFailure(t)
  \/ \E t \in ToolRequests : ToolCancelled(t)
\* the model side stays as initialize left it
InitToolSide == InitWith({<<Inst("A", "hA", 20)>>})
SpecTools == InitToolSide /\ [][NextTools]_vars

\* health_check.py lines 81-95: _run_health_checks, a round after every sleep (the
\* startup hook's health_checker.start() is commented out, main.py line 64: the rounds
\* are those of a checker that has been started)
NextProbes ==
  \/ \E responses \in [ServiceNames -> ProbeResponses] : ProbeRound(responses)
  \/ Tick
SpecProbes == InitToolSide /\ [][NextProbes]_vars

\* ------------------------------------------------------------------ event loop
\* Handlers are coroutines of one event loop: a task runs from one suspension point to
\* the next without any other task running, and a state of this specification is a
\* point where every task is suspended, blocked in a synchronous call, or finished.

\* an await in the middle of update_instance_metrics
AwaitsInCommit == {"commit"}

\* the Store operations whose `async with self.lock` block contains an await: the
\* blocks of initialize (38-83), get_next_instance (87-135) and
\* update_instance_metrics (146-242) contain none
AwaitsUnderLock == {}

IdleTask == [pc |-> "idle", streaming |-> FALSE, node_id |-> NoNode,
             instance_id |-> NoNode, pending |-> <<>>]

\* a task sits in a synchronous call (requests.request, model_base.py line 122): the
\* event loop runs nothing else until it returns
LoopFree == \A q \in Requests : reqs[q].pc # "blocked"
\* the tasks suspended inside a lock block
LockHolders == {q \in Requests : reqs[q].pc = "in_commit"}
\* a task that needs the Store can be resumed and enter its lock block
CanRun == LoopFree /\ LockHolders = {}

\* the Store at an await placed after line 216: the counters are written, the weights,
\* the status and the balance label are not
PartialCommit(sw, sm, model, key, u) ==
  IF ~u.applied THEN [weights |-> sw, metrics |-> sm]
  ELSE [weights |-> sw,
        metrics |-> [u.metrics EXCEPT ![model][key].status = sm[model][key].status,
                                      ![model][key].weight = sm[model][key].weight,
                                      ![model][key].balance = sm[model][key].balance]]

InitLoop ==
  /\ cfg \in {c \in Configs : Len(c) = 1}
  /\ now = 0
  /\ service_weights = InitializedWeights(cfg)
  /\ service_metrics = InitializedMetrics(cfg, now)
  /\ ops = 0
  /\ inits = 0
  /\ last = NoCall
  /\ run = FreshRun
  /\ reqs = [r \in Requests |-> IdleTask]
  /\ InitTools

\* model_base.py lines 85-128 and 273-282: the handler selects and goes on to its
\* upstream call, awaited (httpx) for a unary request, synchronous (requests) for a
\* streaming one
TaskSelect(r, streaming) ==
  /\ reqs[r].pc = "idle"
  /\ CanRun
  /\ LET g == GetNextInstance(service_weights, service_metrics, cfg, ConfiguredModel) IN
       /\ service_weights' = g.weights
       /\ service_metrics' = g.metrics
       /\ last' = [op |-> "select", ok |-> g.ok, code |-> g.code, name |-> g.name]
       /\ run' = RunAfterSelect(g)
       /\ reqs' = [reqs EXCEPT ![r] =
            [@ EXCEPT !.pc = IF ~g.ok THEN "done"
                             ELSE IF streaming THEN "blocked" ELSE "upstream",
                      !.streaming = streaming, !.node_id = g.name,
                      !.instance_id = g.node_id]]
  /\ UNCHANGED <<cfg, now, ops, inits, tool_vars>>

\* model_base.py lines 122-264: requests.request returns, the handler returns the
\* StreamingResponse and its generator is suspended at a yield
UpstreamAnswers(r) ==
  /\ reqs[r].pc = "blocked"
  /\ reqs' = [reqs EXCEPT ![r].pc = "streaming"]
  /\ UNCHANGED <<cfg, service_weights, service_metrics, now, ops, inits, last, run, tool_vars>>

\* model_base.py lines 251-257 (the generator's finally, under the instance name) and
\* 341-349 (the unary handler, whose line 303 raises, under instance_id): the task
\* commits; a task suspended inside the lock block writes the rest
TaskCommit(r, is_error) ==
  LET q == reqs[r]
      key == IF q.streaming THEN q.node_id ELSE q.instance_id
      u == UpdateInstanceMetrics(service_weights, service_metrics, ConfiguredModel, key,
                                 100, is_error, 0, now)
      whole == [weights |-> u.weights, metrics |-> u.metrics]
      part == IF "commit" \in AwaitsUnderLock
              THEN PartialCommit(service_weights, service_metrics, ConfiguredModel, key, u)
              ELSE whole
      written == IF q.pc = "in_commit" THEN q.pending.after ELSE part
  IN /\ LoopFree
     /\ q.pc \in {"upstream", "streaming", "in_commit"}
     /\ q.pc # "in_commit" => /\ LockHolders = {}
                              /\ q.streaming \/ is_error
                              /\ CommitExact(service_weights, service_metrics,
                                             ConfiguredModel, key, is_error)
     /\ q.pc = "in_commit" => is_error
     /\ service_weights' = written.weights
     /\ service_metrics' = written.metrics
     /\ last' = [op |-> "commit", applied |-> u.applied]
     /\ run' = [stable |-> FALSE, picks |-> <<>>]
     /\ reqs' = [reqs EXCEPT ![r] =
          IF q.pc # "in_commit" /\ part # whole
          THEN [@ EXCEPT !.pc = "in_commit",
                         !.pending = [before |-> [weights |-> service_weights,
                                                  metrics |-> service_metrics],
                                      after |-> whole]]
          ELSE [@ EXCEPT !.pc = "done", !.pending = <<>>]]
     /\ UNCHANGED <<cfg, now, ops, inits, tool_vars>>

\* model_base.py lines 57-70: the monitoring endpoints are handlers without an await;
\* the snapshot functions do not take the lock
LoopSnapshot == LoopFree /\ (NodesSnapshot \/ GlobalSnapshot \/ CombinedSnapshot)

NextLoop ==
  \/ \E r \in Requests, streaming \in BOOLEAN : TaskSelect(r, streaming)
  \/ \E r \in Requests : UpstreamAnswers(r)
  \/ \E r \in Requests, is_error \in BOOLEAN : TaskCommit(r, is_error)
  \/ LoopSnapshot
SpecLoop == InitLoop /\ [][NextLoop]_vars

\* the Store calls alone, on the single-instance configurations: selects, and commits
\* under every kind of key
NextCalls == SelectCall \/ CommitCall
SpecCalls == InitTimed /\ [][NextCalls]_vars

\* the same runs, with initialize() called again in between
\* the configurations of the life-cycle runs: the single instances, and the pair whose
\* weights sit at the ceiling and next to the floor
LifeConfigs == {c \in Configs : Len(c) = 1 \/ c[1].initial_weight = MaxWeight}
InitLife == InitWith(LifeConfigs)
NextLife == Initialize \/ DeepSelect \/ DeepCommit
SpecLife == InitLife /\ [][NextLife]_vars

\* ------------------------------------------------- model_request (the proxy)
UpstreamStatuses == {200, 404, 500}
MaxChunks == 1

\* model_base.py line 88: every failure of get_next_instance is answered 503
SelectFailureStatus(code) == 503

\* the exceptions the upstream call raises.  httpx.TimeoutException and
\* httpx.ConnectError are both httpx.RequestError; requests.ConnectionError,
\* NameError and fastapi's HTTPException are not.
HttpxRequestErrors == {"httpx.ConnectError", "httpx.TimeoutException"}

\* lines 265-270 and 334-339: the inner handlers turn every exception into an
\* HTTPException, 502 for an httpx.RequestError and 500 for anything else
InnerExceptStatus(exc) == IF exc \in HttpxRequestErrors THEN 502 ELSE 500

\* lines 351-359: the outer handler's answer to the exception it caught, an
\* HTTPException carrying `status` when the inner handler raised it
OuterExceptStatus(exc, status) ==
  IF exc = "httpx.TimeoutException" THEN 504
  ELSE IF exc = "HTTPException" THEN status
  ELSE 500

\* the answer to an exception `exc` raised inside the inner try
RaisedStatus(exc) == OuterExceptStatus("HTTPException", InnerExceptStatus(exc))

\* lines 83-107: select the node, note start_time; streaming per the request body
ModelRequest(r, model, streaming) ==
  /\ reqs[r].pc = "idle"
  /\ \A q \in Requests : q < r => reqs[q].pc # "idle"   \* requests are numbered as they arrive
  /\ LET g == GetNextInstance(service_weights, service_metrics, cfg, model) IN
       /\ service_weights' = g.weights
       /\ service_metrics' = g.metrics
       /\ last' = [op |-> "select", ok |-> g.ok, code |-> g.code, name |-> g.name]
       /\ run' = RunAfterSelect(g)
       /\ reqs' = [reqs EXCEPT ![r] =
            IF g.ok
            THEN [@ EXCEPT !.pc = "upstream", !.model = model, !.streaming = streaming,
                           !.node_id = g.name, !.instance_id = g.node_id,
                           !.start_time = now]
            ELSE [@ EXCEPT !.pc = "done", !.model = model, !.streaming = streaming,
                           !.resp = SelectFailureStatus(g.code)]]
  /\ UNCHANGED <<cfg, now, ops, inits, tool_vars>>

\* the handler's call of update_instance_metrics, then its answer `status`
HandlerCommit(r, upstream, key, is_error, token_count, status) ==
  /\ CommitExact(service_weights, service_metrics, reqs[r].model, key, is_error)
  /\ LET u == UpdateInstanceMetrics(service_weights, service_metrics, reqs[r].model, key,
                                    (now - reqs[r].start_time) * 1000, is_error,
                                    token_count, now) IN
       /\ service_weights' = u.weights
       /\ service_metrics' = u.metrics
       /\ last' = [op |-> "commit", applied |-> u.applied]
       /\ run' = IF u.applied THEN [stable |-> FALSE, picks |-> <<>>] ELSE run
  /\ reqs' = [reqs EXCEPT ![r] = [@ EXCEPT !.pc = "done", !.upstream = upstream,
                                            !.resp = status, !.commits = @ + 1,
                                            !.is_error = is_error, !.tokens = token_count]]
  /\ UNCHANGED <<cfg, now, ops, inits, tool_vars>>

\* lines 341-359: the outer handler commits under instance_id (host:port), is_error=True,
\* and re-raises the HTTPException it caught
OuterExcept(r, upstream, status) ==
  HandlerCommit(r, upstream, reqs[r].instance_id, TRUE, 0, status)

\* lines 273-339, upstream answered with `status`: the token extraction reads the
\* undefined name `data` (line 303), NameError, answered 500 (line 339)
UnaryResponse(r, status) ==
  /\ reqs[r].pc = "upstream" /\ ~reqs[r].streaming
  /\ OuterExcept(r, status, RaisedStatus("NameError"))

\* lines 275-282, 334-336: client.request raised a connection error
UnaryTransportError(r) ==
  /\ reqs[r].pc = "upstream" /\ ~reqs[r].streaming
  /\ OuterExcept(r, TransportError, RaisedStatus("httpx.ConnectError"))

\* lines 275-282, 334-336: client.request raised httpx.TimeoutException (timeout=300)
UnaryTimeout(r) ==
  /\ reqs[r].pc = "upstream" /\ ~reqs[r].streaming
  /\ OuterExcept(r, UpstreamTimeout, RaisedStatus("httpx.TimeoutException"))

\* lines 122-134, 260-270: requests.request answered; not 200 raises HTTPException,
\* caught at line 268 and answered 500; 200 returns the StreamingResponse
StreamUpstream(r, status) ==
  /\ reqs[r].pc = "upstream" /\ reqs[r].streaming
  /\ IF status # 200
     THEN OuterExcept(r, status, RaisedStatus("HTTPException"))
     ELSE /\ reqs' = [reqs EXCEPT ![r] = [@ EXCEPT !.pc = "streaming", !.upstream = status,
                                                    !.resp = status]]
          /\ UNCHANGED <<cfg, service_weights, service_metrics, now, ops, inits, last, run, tool_vars>>

\* lines 122-128, 268-270: requests.request raised (no httpx.RequestError): 500
StreamTransportError(r) ==
  /\ reqs[r].pc = "upstream" /\ reqs[r].streaming
  /\ OuterExcept(r, TransportError, RaisedStatus("requests.ConnectionError"))

\* ------------------------------------------------------ generate (the stream)
\* The stream is modelled line by line: a chunk of the model is the bytes of one
\* line up to and including its newline, the unit at which the parser acts.
\*   kind  "comment"    no "data: " prefix                   : ping
\*         "binary"     bytes that are not UTF-8, no prefix
\*         "malformed"  data: followed by text json.loads rejects
\*         "number"     data: 5
\*         "list"       data: []
\*         "object"     data: {...}
\*   meta   metadata.usage.total_tokens, usage  usage.total_tokens (NotObject: "usage":5),
\*   pe, ev prompt_eval_count and eval_count; keys are written in this order, and a
\*   malformed line with counts is the object cut before its closing brace
Line(kind, meta, usage, pe, ev) ==
  [kind |-> kind, meta |-> meta, usage |-> usage, pe |-> pe, ev |-> ev]

CommentLine == Line("comment", Absent, Absent, Absent, Absent)
BinaryLine == Line("binary", Absent, Absent, Absent, Absent)
MalformedLine == Line("malformed", Absent, Absent, Absent, Absent)
TruncatedCountsLine == Line("malformed", Absent, Absent, 7, 5)
NumberLine == Line("number", Absent, Absent, Absent, Absent)
ListLine == Line("list", Absent, Absent, Absent, Absent)
IdLine == Line("object", Absent, Absent, Absent, Absent)
CountsLine(pe, ev) == Line("object", Absent, Absent, pe, ev)
UsageLine(c) == Line("object", Absent, c, Absent, Absent)
UsageScalarLine == Line("object", Absent, NotObject, Absent, Absent)
MetaLine(a) == Line("object", a, Absent, Absent, Absent)
MetaUsageLine(a, c) == Line("object", a, c, Absent, Absent)

\* a total_tokens below zero: json.loads accepts it and nothing checks its sign
NegativeTotal == -5

StreamLines ==
  { CommentLine, BinaryLine, MalformedLine, TruncatedCountsLine, NumberLine, ListLine,
    IdLine, CountsLine(7, 5), UsageLine(99), UsageLine(0), UsageScalarLine,
    MetaLine(3), MetaLine(0), MetaUsageLine(3, 9), UsageLine(NegativeTotal) }

\* the lines of the streams of a run of several requests
ProxyLines == { UsageLine(7) }

\* lines 190-196: the regular expressions over a line json.loads rejected
RegexCount(line) ==
  (IF line.pe # Absent THEN line.pe ELSE 0) + (IF line.ev # Absent THEN line.ev ELSE 0)

\* lines 159-198: one complete line through the parser.  Line 172 is followed by
\* `if "usage" in data` (line 177), not elif: a top-level usage is read even when
\* metadata.usage was.  raised: an exception no inner handler catches (TypeError for `"metadata" in 5`, AttributeError for
\* `5 .get`), which leaves the loop at line 207
ParseLine(token_count, final_token_count, line) ==
  LET same == [token_count |-> token_count, final_token_count |-> final_token_count,
               raised |-> FALSE]
  IN CASE line.kind \in {"comment", "binary", "list"} -> same
       [] line.kind = "malformed" -> [same EXCEPT !.token_count = @ + RegexCount(line)]
       [] line.kind = "number" -> [same EXCEPT !.raised = TRUE]
       [] line.kind = "object" ->
            LET f1 == IF line.meta # Absent THEN line.meta ELSE final_token_count IN
            IF line.usage # Absent
            THEN IF line.usage = NotObject
                 THEN [same EXCEPT !.final_token_count = f1, !.raised = TRUE]
                 ELSE [same EXCEPT !.final_token_count = line.usage]
            ELSE IF line.pe # Absent /\ line.ev # Absent
                 THEN [same EXCEPT !.final_token_count = f1,
                                   !.token_count = @ + line.pe + line.ev]
                 ELSE [same EXCEPT !.final_token_count = f1]

\* a ',' in the line: two top-level keys or more
HasComma(line) == line.pe # Absent \/ (line.meta # Absent /\ line.usage # Absent)
\* a '}' in the line
HasBrace(line) == line.kind = "object"

\* lines 223-245: the scan of the collected bytes for the first "prompt_eval_count":
\* and the first "eval_count":, each value cut at the next ',' of the whole content,
\* else at the next '}', else before the last byte; int() of a cut that runs into
\* another line raises and ends the scan with what was added so far
ByteScan(received) ==
  LET I == {i \in 1..Len(received) : received[i].pe # Absent} IN
  IF I = {} THEN 0
  ELSE LET i == CHOOSE x \in I : \A y \in I : x <= y
           later == (i + 1)..Len(received)
           comma_later == \E j \in later : HasComma(received[j])
           eval_ok == IF HasBrace(received[i]) THEN ~comma_later ELSE later = {}
       IN received[i].pe + (IF eval_ok THEN received[i].ev ELSE 0)

\* the total_tokens of the stream ignored: the running count is committed
FinallyRunningCount(q) == q.token_count

\* lines 219-245: the token count the finally block commits
FinallyTokenCount(q) ==
  LET t == IF q.final_token_count # Absent THEN q.final_token_count ELSE q.token_count
  IN IF t = 0 THEN t + ByteScan(q.received) ELSE t

\* line 255
StreamIsError(error_occurred, status_code) == error_occurred \/ status_code >= 400

\* line 143: generate() takes its own start_time when it is first resumed
GenStart(q) == IF q.started THEN q ELSE [q EXCEPT !.started = TRUE, !.start_time = now]

\* lines 211-257: the generator's finally commits under node_id (the instance name);
\* q: the generator's locals when it ends
StreamCommit(r, q, error_occurred) ==
  LET is_error == StreamIsError(error_occurred, q.upstream)
      token_count == FinallyTokenCount(q) IN
  /\ CommitExact(service_weights, service_metrics, q.model, q.node_id, is_error)
  /\ LET u == UpdateInstanceMetrics(service_weights, service_metrics, q.model, q.node_id,
                                    (now - q.start_time) * 1000, is_error, token_count, now) IN
       /\ service_weights' = u.weights
       /\ service_metrics' = u.metrics
       /\ last' = [op |-> "commit", applied |-> u.applied]
       /\ run' = IF u.applied THEN [stable |-> FALSE, picks |-> <<>>] ELSE run
       /\ reqs' = [reqs EXCEPT ![r] = [q EXCEPT !.pc = "done", !.commits = @ + 1,
                                                 !.is_error = is_error,
                                                 !.tokens = token_count]]
  /\ UNCHANGED <<cfg, now, ops, inits, tool_vars>>

\* lines 146-210: one line read from upstream, parsed, and yielded downstream unless
\* the parser raised: then error_occurred is set, finally runs and the stream is cut
StreamChunk(r, limit, line) ==
  /\ reqs[r].pc = "streaming"
  /\ Len(reqs[r].received) < limit
  /\ LET q0 == GenStart(reqs[r])
         p == ParseLine(q0.token_count, q0.final_token_count, line)
         q1 == [q0 EXCEPT !.received = Append(@, line),
                          !.token_count = p.token_count,
                          !.final_token_count = p.final_token_count]
     IN IF p.raised
        THEN StreamCommit(r, [q1 EXCEPT !.ending = "parse"], TRUE)
        ELSE /\ reqs' = [reqs EXCEPT ![r] = [q1 EXCEPT !.delivered = Append(@, line)]]
             /\ UNCHANGED <<cfg, service_weights, service_metrics, now, ops, inits, last, run, tool_vars>>

\* upstream EOF: the loop ends, finally runs
StreamEnd(r) ==
  /\ reqs[r].pc = "streaming"
  /\ StreamCommit(r, [GenStart(reqs[r]) EXCEPT !.ending = "eof"], FALSE)

\* lines 207-210: iter_content raised in the middle of the stream
StreamError(r) ==
  /\ reqs[r].pc = "streaming"
  /\ StreamCommit(r, [GenStart(reqs[r]) EXCEPT !.ending = "transport"], TRUE)

\* the caller went away: a generator suspended at yield is closed (GeneratorExit is
\* no Exception, finally runs); a generator that was never resumed runs nothing
Disconnect(r) ==
  /\ reqs[r].pc = "streaming"
  /\ IF reqs[r].started
     THEN StreamCommit(r, [reqs[r] EXCEPT !.ending = "disconnect"], FALSE)
     ELSE /\ reqs' = [reqs EXCEPT ![r] = [@ EXCEPT !.pc = "done", !.ending = "disconnect"]]
          /\ UNCHANGED <<cfg, service_weights, service_metrics, now, ops, inits, last, run, tool_vars>>

\* the steps of the handlers of the requests R
ProxyStep(R) ==
  \/ \E r \in R, model \in ModelNames, streaming \in BOOLEAN : ModelRequest(r, model, streaming)
  \/ \E r \in R, status \in UpstreamStatuses : UnaryResponse(r, status)
  \/ \E r \in R : UnaryTransportError(r)
  \/ \E r \in R : UnaryTimeout(r)
  \/ \E r \in R, status \in UpstreamStatuses : StreamUpstream(r, status)
  \/ \E r \in R : StreamTransportError(r)
  \/ \E r \in R, line \in ProxyLines : StreamChunk(r, MaxChunks, line)
  \/ \E r \in R : StreamEnd(r)
  \/ \E r \in R : StreamError(r)
  \/ \E r \in R : Disconnect(r)

\* initialize() is only called by the startup hook, before any request
NextProxy == ProxyStep(Requests)

SpecProxy == Init /\ [][NextProxy]_vars

\* one streamed request of the configured model, over every line of StreamLines
MaxLines == 3
StreamRequest == 1
StreamConfigs == { <<Inst("A", "hA", 20)>> }
InitStream == InitWith(StreamConfigs)
NextStream ==
  \/ ModelRequest(StreamRequest, ConfiguredModel, TRUE)
  \/ StreamUpstream(StreamRequest, 200)
  \/ \E line \in StreamLines : StreamChunk(StreamRequest, MaxLines, line)
  \/ StreamEnd(StreamRequest)
  \/ StreamError(StreamRequest)
  \/ Disconnect(StreamRequest)

SpecStream == InitStream /\ [][NextStream]_vars

\* requests arriving at a Store that the failed streams of earlier requests have
\* degraded: their commits with is_error=True
FailedCommit ==
  \E n \in Names(cfg), rt \in ResponseTimes : Commit(MaxDeep, ConfiguredModel, n, rt, TRUE, 0)
InitDegraded == InitWith({c \in Configs : Len(c) = 1})
DegradedRequests == {1, 2}
NextDegraded == FailedCommit \/ ProxyStep(DegradedRequests)
SpecDegraded == InitDegraded /\ [][NextDegraded]_vars

\* =================================================================== claims
W(n) == service_weights[ConfiguredModel][n]
M(n) == service_metrics[ConfiguredModel][n]
Instances == DOMAIN service_metrics[ConfiguredModel]
HealthySet == {n \in Instances : M(n).status = Healthy}

RECURSIVE SumEffective(_)
SumEffective(S) ==
  IF S = {} THEN 0
  ELSE LET n == CHOOSE x \in S : TRUE IN W(n).effective_weight + SumEffective(S \ {n})

AllRequestsCompleted == \A r \in Requests : reqs[r].pc \in {"idle", "done"}
PickCount(n) == Cardinality({k \in 1..Len(run.picks) : run.picks[k] = n})

\* C1: once every proxied request that selected an instance has completed,
\* active_requests of every instance is 0.
C1_ActiveZeroWhenAllCompleted ==
  AllRequestsCompleted => \A n \in Instances : M(n).active_requests = 0

\* C2: active_requests of every instance is >= 0 in every reachable state, under
\* any interleaving of initialize, select and commit, commits without a select included.
C2_ActiveNonNegative == \A n \in Instances : M(n).active_requests >= 0

\* a commit was applied to an instance no select has picked since initialize
C2_CommitWithoutSelect ==
  /\ last.op = "commit" /\ last.applied
  /\ \A n \in Instances : W(n).current_weight = cfg[InstOf(cfg, n)].initial_weight * Scale
  /\ \E n \in Instances : M(n).request_count >= 1 /\ M(n).active_requests = 0

\* C3: for initial weights in [1,100], 5 <= effective_weight <= 100 in every
\* reachable state.
C3_EffectiveWeightInRange ==
  \A n \in Instances :
    /\ MinWeight * Scale <= W(n).effective_weight
    /\ W(n).effective_weight <= MaxWeight * Scale

\* C4: current_weight of every instance lies in [-S, +S], S the sum of
\* effective_weight over the model's instances.
C4_CurrentWeightBounded ==
  \A n \in Instances :
    /\ -SumEffective(Instances) <= W(n).current_weight
    /\ W(n).current_weight <= SumEffective(Instances)

\* C5: with no commit since initialize, after N selects every instance i was picked
\* between floor(N*w_i/sum(w)) and ceil(N*w_i/sum(w)) times.
C5_PicksProportional ==
  run.stable =>
    \A n \in Instances :
      LET N == Len(run.picks)
          w == W(n).effective_weight
          S == SumEffective(Instances)
      IN /\ (N * w) \div S <= PickCount(n)
         /\ PickCount(n) * S <= N * w + S - 1

\* C6: instances A (weight 3) and B (weight 1), no commit: 8 selects return
\* A,A,B,A,A,A,B,A.
C6_PickSequence ==
  ( /\ Len(cfg) = 2
    /\ cfg[1].name = "A" /\ cfg[1].initial_weight = 3
    /\ cfg[2].name = "B" /\ cfg[2].initial_weight = 1
    /\ run.stable /\ Len(run.picks) = 8 )
  => run.picks = <<"A", "A", "B", "A", "A", "A", "B", "A">>

\* the healthy instance with the greatest current_weight + effective_weight, the
\* first in configured order among ties
Bumped(n) == W(n).current_weight + W(n).effective_weight
Position(n) == InstOf(cfg, n)
ArgMaxFirst ==
  CHOOSE n \in HealthySet :
    \A k \in HealthySet :
      Bumped(k) < Bumped(n) \/ (Bumped(k) = Bumped(n) /\ Position(n) <= Position(k))

\* C7: when the model has a healthy instance, select succeeds and returns the healthy
\* instance whose bumped current_weight is greatest, first in configured order on ties.
C7_SelectReturnsArgMax ==
  [][ (HealthySet # {} /\ DeepSelect) => (last'.ok /\ last'.name = ArgMaxFirst) ]_vars

\* C8: after a successful select the picked instance's current_weight is its old
\* value plus its effective_weight minus the sum of effective_weight over the healthy
\* instances; every other healthy instance's is its old value plus its effective_weight.
C8_SelectUpdatesWeights ==
  [][ (SelectOnly /\ last'.ok) =>
        \A n \in HealthySet :
          service_weights'[ConfiguredModel][n].current_weight =
            IF n = last'.name THEN Bumped(n) - SumEffective(HealthySet) ELSE Bumped(n) ]_vars

\* C9: a proxy request for a model that is not configured is answered 404.
C9_UnknownModelIs404 ==
  \A r \in Requests :
    (reqs[r].pc = "done" /\ reqs[r].model \notin DOMAIN service_metrics)
      => reqs[r].resp = 404

\* C10: a proxy request for a model that is not configured leaves the Store unchanged
\* and issues no commit.
C10_UnknownModelLeavesStore ==
  /\ [][ \A r \in Requests, model \in ModelNames, streaming \in BOOLEAN :
           (model \notin DOMAIN service_metrics /\ ModelRequest(r, model, streaming))
             => /\ service_weights' = service_weights
                /\ service_metrics' = service_metrics
                /\ reqs'[r].pc = "done" ]_vars
  /\ [](\A r \in Requests :
          (reqs[r].model # "none" /\ reqs[r].model \notin DOMAIN service_metrics)
            => reqs[r].commits = 0)

\* a request for the unconfigured model was answered while another request holds a node
C10_UnknownModelAnswered ==
  \E r, q \in Requests :
    /\ reqs[r].pc = "done" /\ reqs[r].model = "nope" /\ reqs[r].commits = 0
    /\ reqs[q].pc = "upstream"

\* ------------------------------------------------------------ C11 .. C20
Req(r) == reqs[r]
Answered(r) == Req(r).pc = "done"
InFlight(r) == Req(r).pc \in {"upstream", "streaming"}
StreamedOk(r) == Answered(r) /\ Req(r).streaming /\ Req(r).upstream = 200
Last(seq) == seq[Len(seq)]

\* C11: when no instance of a configured model is healthy (all are warning), a proxy
\* request is answered 503, issues no commit, and leaves active_requests of every
\* instance unchanged.
C11_NoHealthyIs503 ==
  /\ [][ \A r \in DegradedRequests, streaming \in BOOLEAN :
           (HealthySet = {} /\ ModelRequest(r, ConfiguredModel, streaming))
             => /\ reqs'[r].pc = "done"
                /\ reqs'[r].resp = 503
                /\ \A n \in Instances :
                     service_metrics'[ConfiguredModel][n].active_requests = M(n).active_requests
        ]_vars
  /\ [](\A r \in DegradedRequests :
          (Answered(r) /\ Req(r).node_id = NoNode) => Req(r).commits = 0)

\* the only instance has gone warning while a request holds it, and a later request
\* for the model was rejected
C11_AllWarningRejected ==
  /\ HealthySet = {} /\ last.op = "select" /\ ~last.ok
  /\ \E r, q \in DegradedRequests :
       /\ Answered(r) /\ Req(r).model = ConfiguredModel /\ Req(r).node_id = NoNode
       /\ Req(r).resp = 503 /\ Req(r).commits = 0
       /\ InFlight(q)

\* C12: a unary request is answered with the upstream's status, and the selected
\* instance is committed once with is_error = (status >= 400); an upstream 200 with no
\* token field gives 200 and a commit with is_error=false, token_count=0.
C12_UnaryPassesThrough ==
  \A r \in Requests :
    (Answered(r) /\ ~Req(r).streaming /\ Req(r).upstream \in UpstreamStatuses)
      => /\ Req(r).resp = Req(r).upstream
         /\ Req(r).commits = 1
         /\ Req(r).is_error = (Req(r).upstream >= 400)
         /\ Req(r).tokens = 0

\* C13: every streaming request whose upstream answered 200 ends with exactly one
\* commit, however the stream ends (EOF, upstream error, caller disconnecting, before
\* the first chunk included).
C13_StreamCommitsOnce ==
  StreamedOk(StreamRequest) => Req(StreamRequest).commits = 1

\* C14: a streaming request whose upstream status is not 200 is answered with that
\* status and committed once with is_error=true, token_count=0.
C14_StreamNon200Surfaced ==
  \A r \in Requests :
    (Answered(r) /\ Req(r).streaming /\ Req(r).upstream \in UpstreamStatuses \ {200})
      => /\ Req(r).resp = Req(r).upstream
         /\ Req(r).commits = 1 /\ Req(r).is_error /\ Req(r).tokens = 0

\* C15: an upstream timeout is answered 504 and committed with is_error=true.
C15_TimeoutIs504 ==
  \A r \in Requests :
    (Answered(r) /\ Req(r).upstream = UpstreamTimeout)
      => (Req(r).resp = 504 /\ Req(r).commits = 1 /\ Req(r).is_error)

\* C16: an upstream transport error, unary or streaming, is answered 502 and committed
\* with is_error=true.
C16_TransportIs502 ==
  \A r \in Requests :
    (Answered(r) /\ Req(r).upstream = TransportError)
      => (Req(r).resp = 502 /\ Req(r).commits = 1 /\ Req(r).is_error)

\* C17: the chunks delivered downstream are the chunks received from upstream, in
\* order, whatever the content (lines that are no JSON objects, bytes that are no
\* UTF-8).
C17_DeliveredEqualsReceived ==
  Req(StreamRequest).delivered = Req(StreamRequest).received

\* C18: the committed is_error of a stream is true iff upstream raised a transport
\* error during the stream (or its status is >= 400); a data line that fails token
\* parsing never sets is_error and never cuts the stream.
C18_ParseFailureIsNoError ==
  (StreamedOk(StreamRequest) /\ Req(StreamRequest).commits = 1)
    => /\ Req(StreamRequest).is_error <=> Req(StreamRequest).ending = "transport"
       /\ Req(StreamRequest).ending # "parse"

MetaLinesOf(seq) == {i \in 1..Len(seq) : seq[i].meta # Absent}
UsageLinesOf(seq) == {i \in 1..Len(seq) : seq[i].usage # Absent}
CountLinesOf(seq) == {i \in 1..Len(seq) : seq[i].pe # Absent /\ seq[i].ev # Absent}

\* C19: a stream, read to its end, with a line metadata.usage.total_tokens = A (A >= 0,
\* 0 included) and lines with prompt_eval_count and eval_count commits token_count = A.
C19_MetadataTotalWins ==
  LET q == Req(StreamRequest) IN
  ( /\ StreamedOk(StreamRequest) /\ q.commits = 1 /\ q.ending = "eof"
    /\ MetaLinesOf(q.received) # {} /\ CountLinesOf(q.received) # {}
    /\ UsageLinesOf(q.received) = {} )
  => \A i \in MetaLinesOf(q.received) :
       i = Len(q.received) \/ (\A j \in MetaLinesOf(q.received) : j <= i)
         => q.tokens = q.received[i].meta

\* C20: after a data line with both metadata.usage.total_tokens = A and a top-level
\* usage.total_tokens = C, final_token_count is A.
C20_MetadataBeforeUsage ==
  LET q == Req(StreamRequest) IN
  ( /\ q.pc = "streaming" /\ q.received # <<>>
    /\ Last(q.received).meta # Absent
    /\ Last(q.received).usage \notin {Absent, NotObject} )
  => q.final_token_count = Last(q.received).meta

\* ------------------------------------------------------------ C21 .. C30
ScenarioS4Stream == <<IdLine, CountsLine(7, 5), UsageLine(99)>>

\* C21: the stream data: {"id":"x"}, data: {"prompt_eval_count":7,"eval_count":5},
\* data: {"usage":{"total_tokens":99}}, EOF is delivered as received and commits
\* token_count = 99.
C21_LaterUsageOverrides ==
  LET q == Req(StreamRequest) IN
  (StreamedOk(StreamRequest) /\ q.ending = "eof" /\ q.received = ScenarioS4Stream)
    => (q.delivered = ScenarioS4Stream /\ q.commits = 1 /\ q.tokens = 99 /\ ~q.is_error)

\* that stream was read to its end and committed
C21_StreamS4Committed ==
  LET q == Req(StreamRequest) IN
  /\ StreamedOk(StreamRequest) /\ q.ending = "eof" /\ q.received = ScenarioS4Stream
  /\ q.commits = 1 /\ M("A").tokens = 99

\* a commit of the run, by instance name
CommitOn(n, is_error) ==
  \E rt \in ResponseTimes : Commit(MaxDeep, ConfiguredModel, n, rt, is_error, 0)
StatusOf(n) == M(n).status
FailuresOf(n) == W(n).history_failures
StatusNext(n) == service_metrics'[ConfiguredModel][n].status
FailuresNext(n) == service_weights'[ConfiguredModel][n].history_failures
EffectiveNext(n) == service_weights'[ConfiguredModel][n].effective_weight

\* C22: history_failures counts the consecutive error commits since the last successful
\* commit or initialize, and the status goes from healthy to warning exactly at the
\* commit that takes history_failures from 3 to 4.
C22_WarningAtFourthFailure ==
  /\ [][ \A n \in Instances :
           /\ CommitOn(n, TRUE) => FailuresNext(n) = FailuresOf(n) + 1
           /\ CommitOn(n, FALSE) => FailuresNext(n) = 0
           /\ Initialize => FailuresNext(n) = 0
           /\ DeepSelect => FailuresNext(n) = FailuresOf(n)
           /\ (StatusOf(n) = Healthy /\ StatusNext(n) = Warning)
                <=> (StatusOf(n) = Healthy /\ FailuresOf(n) = 3 /\ FailuresNext(n) = 4) ]_vars
  /\ [](\A n \in Instances : FailuresOf(n) <= 3 /\ M(n).error_count <= 3 => StatusOf(n) = Healthy)

\* an instance went warning at its fourth consecutive failure
C22_FourthFailure ==
  /\ last.op = "commit"
  /\ \E n \in Instances :
       StatusOf(n) = Warning /\ FailuresOf(n) = 4 /\ M(n).error_count = 4

\* every commit of a run so far was an error (k errors in a row) or a success
OnlyErrors(n, k) == M(n).request_count = k /\ M(n).error_count = k
OnlySuccesses(n, k) == M(n).request_count = k /\ M(n).error_count = 0
RECURSIVE Pow(_, _)
Pow(b, e) == IF e = 0 THEN 1 ELSE b * Pow(b, e - 1)

\* C23: a commit sets effective_weight to max(5, 0.8 * old) when is_error and to
\* min(100, 1.05 * old) otherwise; from 20, four error commits give 16, 12.8, 10.24,
\* 8.192 and history_failures 4; from 10, three successes give 10.5, 11.025, 11.57625
\* and history_failures 0.
C23_WeightUpdate ==
  /\ [][ \A n \in Instances :
           /\ CommitOn(n, TRUE) =>
                \/ 5 * EffectiveNext(n) = 4 * W(n).effective_weight
                     /\ EffectiveNext(n) >= MinWeight * Scale
                \/ EffectiveNext(n) = MinWeight * Scale
                     /\ 4 * W(n).effective_weight <= 5 * MinWeight * Scale
           /\ CommitOn(n, FALSE) =>
                \/ 20 * EffectiveNext(n) = 21 * W(n).effective_weight
                     /\ EffectiveNext(n) <= MaxWeight * Scale
                \/ EffectiveNext(n) = MaxWeight * Scale
                     /\ 21 * W(n).effective_weight >= 20 * MaxWeight * Scale ]_vars
  /\ [](\A n \in Instances, k \in 0..4 :
          (cfg[InstOf(cfg, n)].initial_weight = 20 /\ OnlyErrors(n, k))
            => /\ W(n).effective_weight = ((20 * Scale) \div Pow(5, k)) * Pow(4, k)
               /\ FailuresOf(n) = k)
  /\ [](\A n \in Instances, k \in 0..3 :
          (cfg[InstOf(cfg, n)].initial_weight = 10 /\ OnlySuccesses(n, k))
            => /\ W(n).effective_weight = ((10 * Scale) \div Pow(20, k)) * Pow(21, k)
               /\ FailuresOf(n) = 0)

\* the weight 20 after four errors in a row: 8.192
C23_FourErrorsFromTwenty ==
  \E n \in Instances :
    /\ cfg[InstOf(cfg, n)].initial_weight = 20 /\ OnlyErrors(n, 4)
    /\ 1000 * W(n).effective_weight = 8192 * Scale

\* C24: a warning instance stays warning under every select and commit (successful
\* commits included), only initialize makes it healthy again, and a model whose
\* instances are all warning rejects every select.
C24_WarningIsAbsorbing ==
  [][ /\ \A n \in Instances :
           /\ (StatusOf(n) = Warning /\ ~Initialize) => StatusNext(n) = Warning
           /\ Initialize => StatusNext(n) = Healthy
      /\ (HealthySet = {} /\ DeepSelect) => (~last'.ok /\ last'.code = 503) ]_vars

\* a warning instance has since been committed a success, and a select was rejected
C24_RejectedAfterSuccess ==
  /\ HealthySet = {} /\ last.op = "select" /\ ~last.ok
  /\ \E n \in Instances : StatusOf(n) = Warning /\ FailuresOf(n) = 0 /\ M(n).request_count = 5

\* C25: after a commit the balance label of every instance of the model, the committed
\* one or not, is unbalanced iff |effective_weight - avg| / avg > 0.2, avg the mean
\* effective_weight of the healthy instances.
C25_BalanceLabelOfAll ==
  (last.op = "commit" /\ last.applied /\ HealthySet # {})
    => \A n \in Instances :
         M(n).balance = Unbalanced
           <=> 5 * Abs(W(n).effective_weight * Cardinality(HealthySet) - SumEffective(HealthySet))
                 > SumEffective(HealthySet)

\* C26: between two initialize calls the tokens, request_count and error_count of every
\* instance never decrease, whatever selects and commits (with any parsed token count)
\* are applied.
C26_CountersNeverDecrease ==
  [][ \A n \in Instances :
        /\ service_metrics'[ConfiguredModel][n].tokens >= M(n).tokens
        /\ service_metrics'[ConfiguredModel][n].request_count >= M(n).request_count
        /\ service_metrics'[ConfiguredModel][n].error_count >= M(n).error_count ]_vars

\* C27: after a commit at time now the instance's load_history is in non-decreasing
\* order of time and holds no entry older than now - 30 s.
C27_HistoryOrderedAndRecent ==
  \A n \in Instances :
    LET h == M(n).load_history IN
    /\ \A i, j \in 1..Len(h) : i < j => h[i][1] <= h[j][1]
    /\ \A i \in 1..Len(h) : h[i][1] >= M(n).last_update - HistoryWindow
    /\ (h # <<>>) => h[Len(h)][1] = M(n).last_update

\* a commit has dropped an entry that had left the window
C27_EntryDropped ==
  /\ last.op = "commit" /\ last.applied
  /\ \E n \in Instances :
       /\ M(n).last_update = now
       /\ M(n).load_history # <<>>
       /\ Len(M(n).load_history) < M(n).request_count

\* the Store a first initialize() leaves for the configuration, field by field
\* (last_update, a time stamp, aside)
FreshStore(sw, sm) ==
  /\ DOMAIN sw = {ConfiguredModel} /\ DOMAIN sm = {ConfiguredModel}
  /\ DOMAIN sw[ConfiguredModel] = Names(cfg) /\ DOMAIN sm[ConfiguredModel] = Names(cfg)
  /\ \A i \in 1..Len(cfg) :
       LET w == sw[ConfiguredModel][cfg[i].name]
           m == sm[ConfiguredModel][cfg[i].name]
       IN (\A j \in (i + 1)..Len(cfg) : cfg[j].name # cfg[i].name)
          => /\ w.current_weight = cfg[i].initial_weight * Scale
             /\ w.effective_weight = cfg[i].initial_weight * Scale
             /\ w.history_failures = 0
             /\ m.weight = cfg[i].initial_weight * Scale
             /\ m.status = Healthy /\ m.balance = Balanced
             /\ m.active_requests = 0 /\ m.request_count = 0 /\ m.error_count = 0
             /\ m.tokens = 0 /\ m.resp_time = 0 /\ m.load_rate = 0
             /\ m.load_history = <<>>
             /\ m.name = cfg[i].name /\ m.node_id = cfg[i].node_id
             /\ m.load_threshold = cfg[i].load_threshold

\* C28: initialize is idempotent: called right after another initialize, or after any
\* activity, it leaves the Store (time stamps aside) that one initialize leaves.
C28_InitializeIsIdempotent ==
  /\ FreshStore(service_weights, service_metrics) \/ ops > 0
  /\ last.op = "initialize" => FreshStore(service_weights, service_metrics)

\* initialize was called after selects and commits had changed the Store
C28_InitializedAfterActivity ==
  last.op = "initialize" /\ ops >= 2 /\ inits = 1

\* C29: two snapshots of the same kind with no Store mutation in between are equal
\* (time stamps aside), in every reachable Store, one whose counters are 0 included.
C29_SnapshotsRepeat ==
  (last.op = "snapshot" /\ last.again)
    => TimeAside(last.kind, last.value) = TimeAside(last.kind, last.before)

\* C30: in a global snapshot, on the global and on the combined endpoint, the node
\* count is the number of instances and the healthy count is the number of healthy
\* instances (0 when there is none).
C30_GlobalCounts ==
  (last.op = "snapshot" /\ last.kind \in {"global", "combined"})
    => LET g == IF last.kind = "global" THEN last.value[ConfiguredModel]
                ELSE last.value.global_metrics[ConfiguredModel]
       IN /\ g.nodes = Cardinality(Instances)
          /\ g.healthy = Cardinality(HealthySet)

\* C34: a select that fails (unknown model, or no instance selected) leaves the Store
\* unchanged, in every reachable state, those where healthy instances have a
\* non-positive current_weight included.
C34_FailedSelectChangesNothing ==
  [][ (last'.op = "select" /\ ops' = ops + 1 /\ ~last'.ok)
        => (service_weights' = service_weights /\ service_metrics' = service_metrics) ]_vars

\* a commit step of the Store under the given (model, key)
CommitWith(target) ==
  \E rt \in ResponseTimes, is_error \in BOOLEAN, tok \in TokenCounts :
    Commit(MaxOps, target[1], target[2], rt, is_error, tok)

\* C35: a commit whose model is not in the Store, or whose key is not an instance name
\* of that model (the host:port id returned by select, for one), returns silently and
\* changes nothing in the Store.
C35_UnknownCommitIsSilent ==
  [][ \A target \in CommitTargets(cfg) :
        ((target[1] \notin DOMAIN service_metrics \/ target[2] \notin Names(cfg))
           /\ CommitWith(target))
          => /\ service_weights' = service_weights
             /\ service_metrics' = service_metrics
             /\ ~last'.applied ]_vars

\* a commit under a key that is no instance name left the request of a select open
C35_CommitLeftRequestOpen ==
  /\ last.op = "commit" /\ ~last.applied
  /\ \E n \in Instances : M(n).active_requests = 1 /\ M(n).request_count = 0

\* C36: for every instance configured with an initial weight in [1, 100], a commit
\* with is_error never increases effective_weight and a commit without never
\* decreases it.
C36_WeightMovesOneWay ==
  [][ \A n \in Instances :
        LET before == M(n)
            after == service_metrics'[ConfiguredModel][n]
        IN /\ after.error_count = before.error_count + 1 => EffectiveNext(n) <= W(n).effective_weight
           /\ (after.request_count = before.request_count + 1
                 /\ after.error_count = before.error_count)
                => EffectiveNext(n) >= W(n).effective_weight ]_vars

\* the Stores in which every operation is applied whole: the Store itself, or, while a
\* task is inside a lock block, the Stores before and after its operation
WholeStores ==
  IF LockHolders = {} THEN {[weights |-> service_weights, metrics |-> service_metrics]}
  ELSE UNION {{reqs[q].pending.before, reqs[q].pending.after} : q \in LockHolders}
ViewsOf(kind, store) ==
  CASE kind = "nodes" -> {GetServiceMetrics(store.metrics)}
    [] kind = "global" -> {GetGlobalMetrics(store.metrics, now)}
    [] kind = "combined" -> {GetCombinedMetrics(store.metrics, now, seed) : seed \in Seeds}

\* C31: no snapshot (per-node, global or combined) observes a Store in which a commit
\* or a select is applied only in part, under any interleaving of the handlers on the
\* event loop.
C31_NoTornSnapshot ==
  last.op = "snapshot"
    => last.value \in UNION {ViewsOf(last.kind, store) : store \in WholeStores}

\* a snapshot taken after a commit was applied, while another handler awaits upstream
C31_SnapshotBetweenHandlers ==
  /\ last.op = "snapshot"
  /\ \E q \in Requests : reqs[q].pc = "upstream"
  /\ \E n \in Instances : M(n).request_count >= 1 /\ M(n).active_requests >= 1

\* C32: the Store lock is never held across a suspension point, so a handler waiting
\* on upstream I/O never blocks another handler's select or commit.
C32_UpstreamWaitBlocksNobody ==
  /\ LockHolders = {}
  /\ \A q \in Requests :
       reqs[q].pc \in {"upstream", "blocked"}
         => \A p \in Requests \ {q} : reqs[p].pc \in {"idle", "upstream", "streaming"} => CanRun


\* C33: a request to /tools/{service}/... whose service is not configured is answered
\* 404, nothing is forwarded, and the counters of the tool monitor stay as they were
C33_UnknownServiceIs404 ==
  [][ \A t \in ToolRequests :
        (/\ tool_reqs[t].pc = "idle"
         /\ tool_reqs'[t].pc # "idle"
         /\ Lower(tool_reqs'[t].service) \notin {Lower(s) : s \in ServiceNames})
          => /\ tool_reqs'[t].pc = "done"
             /\ tool_reqs'[t].resp = 404
             /\ ~tool_reqs'[t].forwarded
             /\ monitor' = monitor ]_vars

\* a request for a configured service is counted and in flight, and the request
\* after it, for a service that is not configured, has been answered 404
C33_RefusedNextToForwarded ==
  \E t, q \in ToolRequests :
     /\ tool_reqs[t].pc = "done" /\ tool_reqs[t].resp = 404 /\ ~tool_reqs[t].forwarded
     /\ tool_reqs[t].service = "ghost"
     /\ tool_reqs[q].pc = "upstream"
     /\ monitor.active_tasks = 1
     /\ Len(monitor.recent_requests) = 1

\* C37: every record_request_start is followed by one record_request_end: active_tasks,
\* per service and global, is never negative, and is 0 when no tool request is in flight
C37_ActiveTasksBalanced ==
  /\ monitor.active_tasks >= 0
  /\ \A s \in ServiceNames : monitor.service_metrics[s].active_tasks >= 0
  /\ (\A t \in ToolRequests : tool_reqs[t].pc # "upstream")
       => /\ monitor.active_tasks = 0
          /\ \A s \in ServiceNames : monitor.service_metrics[s].active_tasks = 0

\* C38: a healthy service is marked unhealthy by a probe exception only in a round where
\* health_check_failures reaches 3 or more, and a round whose probe returns a result
\* sets health_check_failures to 0 and healthy to that result
C38_ThreeExceptionsMarkUnhealthy ==
  [][ \A responses \in [ServiceNames -> ProbeResponses] :
        ProbeRound(responses) =>
          \A s \in ServiceNames :
            LET result == CheckServiceHealth(responses[s]) IN
              IF result.exception
              THEN /\ health_checker'[s].health_check_failures
                        = health_checker[s].health_check_failures + 1
                   /\ (health_checker[s].healthy /\ ~health_checker'[s].healthy)
                        => health_checker'[s].health_check_failures >= 3
                   /\ (health_checker[s].healthy
                         /\ health_checker'[s].health_check_failures < 3)
                        => health_checker'[s].healthy
              ELSE /\ health_checker'[s].health_check_failures = 0
                   /\ health_checker'[s].healthy = result.value ]_vars

\* a service was healthy through two probe exceptions and the third has marked it
\* unhealthy, while the other service, probed in the same rounds, is healthy
C38_ThirdExceptionMarked ==
  \E s, o \in ServiceNames :
     /\ ~health_checker[s].healthy
     /\ health_checker[s].health_check_failures = 3
     /\ health_checker[o].healthy
     /\ health_checker[o].health_check_failures = 0
     /\ health_checker[o].last_health_check = health_checker[s].last_health_check
     /\ health_checker[s].last_health_check > 0

====
